---------------------------- MODULE Spec2Model ----------------------------
(***************************************************************************)
(* A model of the ViTables launcher (src/vitables/start.py) and of its     *)
(* logging console widget (src/vitables/logger.py).                        *)
(*                                                                         *)
(* Five specifications share the module:                                   *)
(*   SpecParse        _parse_command_line on bounded command lines         *)
(*   SpecSetupLogger  _setup_logger on every namespace the parser returns  *)
(*   Spec             the launcher process: module load, gui(), the event  *)
(*                    loop, the uncaught-exception hook and the exit hook  *)
(*   SpecWrite        the Logger fed by the redirected standard output     *)
(*   SpecLogger       the Logger with its context menu and focus events    *)
(* Python strings that the code compares or scans are sequences of code    *)
(* points (version strings) or of one-character strings (console text).    *)
(***************************************************************************)
EXTENDS Integers, Sequences, FiniteSets, TLC

VARIABLES
    \* ---- _parse_command_line
    argv,            \* sys.argv[1:], a sequence of tokens
    args,            \* the returned namespace, or NotParsed
    \* ---- the launcher process
    launch,          \* "script" (run as __main__) or "entry" (gui() imported and called)
    version,         \* tables.__version__ as a tuple of numbers
    pc,              \* position of the main thread
    steps,           \* the steps of gui() run so far, in order
    gargs,           \* the namespace local to gui()
    exit_msg,        \* the argument of sys.exit, or None
    root_level,      \* level of the root logger
    root_handlers,   \* handlers of the root logger, in order of addition
    console_handler, \* the handler gui() holds as console_log_handler
    records,         \* log records emitted so far
    raised,          \* uncaught exceptions raised so far
    exc,             \* the exception the hook is handling, or None
    resume,          \* where the main thread goes after the hook
    default_handled, \* exceptions passed to sys.__excepthook__ so far
    atexit_hooks,    \* callbacks registered with atexit
    open_files,      \* tables.file._open_files: the handles now open
    at_exit_open,    \* the handles open when the process began to exit
    log_open,        \* outcome of opening the log file: None, "ok" or "failed"
    hook_path,       \* branch of _close_open_files taken: "handlers" or "keys"
    handlers,        \* the local list the exit hook iterates
    close_calls,     \* per handle, the close() calls made by the exit hook
    \* ---- the Logger widget
    document,        \* paragraphs of the console: [text, color]
    text_color,      \* QTextEdit.textColor()
    has_selection,   \* textCursor().hasSelection()
    menu,            \* the context menu's actions: Nothing before the first menu
    menu_shown,      \* a context menu is popped up
    has_focus,       \* the widget holds keyboard focus
    emitted,         \* the signals emitted so far, oldest first
    pending          \* texts printed to the redirected stdout, not yet written

parse_vars == <<argv, args>>

start_vars == <<launch, version, pc, steps, gargs, exit_msg, root_level,
                root_handlers, console_handler, records, raised, exc, resume,
                default_handled, atexit_hooks, open_files, at_exit_open,
                log_open, hook_path, handlers, close_calls>>

logger_vars == <<document, text_color, has_selection, menu, menu_shown,
                 has_focus, emitted, pending>>

vars == <<parse_vars, start_vars, logger_vars>>

None == "None"

-----------------------------------------------------------------------------
(* Bounds *)

MaxArgs == 4        \* longest command line given to _parse_command_line alone

MaxLaunchArgs == 3  \* longest command line of a launcher run

MaxFiles == 2       \* file handles the library can have open

MaxRaise == 2       \* uncaught exceptions raised in one run

MaxDoc == 2         \* paragraphs the console holds

MaxSignals == 4     \* signals the Logger emits in one run

-----------------------------------------------------------------------------
(* _parse_command_line                                                     *)

\* The option strings the parser declares.
OptionStrings == {"-m", "-d", "-l", "-v"}

\* Options declared without an action: they store the one argument that follows.
StoreOptions == {"-m", "-d", "-l"}

\* choices=['r', 'a'] of -m/--mode
ModeChoices == {"r", "a"}

\* Tokens a command line is made of: the options, the two modes, an empty
\* string, a list file and a data file.
Tokens == OptionStrings \cup ModeChoices \cup {"", "db.txt", "f.h5"}

RECURSIVE SeqsUpTo(_, _)
SeqsUpTo(S, n) ==
    IF n = 0 THEN {<<>>}
    ELSE LET shorter == SeqsUpTo(S, n - 1)
         IN  shorter \cup {Append(s, x) : s \in {t \in shorter : Len(t) = n - 1}, x \in S}

ArgvSet == SeqsUpTo(Tokens, MaxArgs)

\* parser.set_defaults(mode='a', dblist='', h5file=[]); log_file defaults to
\* None and verbose to 0.  error is set when the parser exits with status 2.
Defaults ==
    [mode |-> "a", dblist |-> "", log_file |-> None, verbose |-> 0,
     h5file |-> <<>>, error |-> FALSE]

ParseError == [Defaults EXCEPT !.error = TRUE]

\* Index of the last token of the run of non-option tokens that starts at i.
RECURSIVE RunEnd(_, _)
RunEnd(av, i) ==
    IF i < Len(av) /\ av[i + 1] \notin OptionStrings THEN RunEnd(av, i + 1) ELSE i

Dest(opt) ==
    CASE opt = "-m" -> "mode"
      [] opt = "-d" -> "dblist"
      [] opt = "-l" -> "log_file"

\* parser.parse_args(): the options are consumed left to right; h5file
\* (nargs='*') takes the first run of positional tokens, and positional
\* tokens met after that are unrecognized arguments.
RECURSIVE ParseFrom(_, _, _, _)
ParseFrom(av, i, ns, positionals_done) ==
    IF i > Len(av) THEN ns
    ELSE LET tok == av[i] IN
         IF tok = "-v"
         THEN ParseFrom(av, i + 1, [ns EXCEPT !.verbose = @ + 1], positionals_done)
         ELSE IF tok \in StoreOptions
         THEN IF i = Len(av) \/ av[i + 1] \in OptionStrings
              THEN ParseError                       \* expected one argument
              ELSE IF tok = "-m" /\ av[i + 1] \notin ModeChoices
              THEN ParseError                       \* invalid choice
              ELSE ParseFrom(av, i + 2, [ns EXCEPT ![Dest(tok)] = av[i + 1]],
                             positionals_done)
         ELSE IF positionals_done
         THEN ParseError                            \* unrecognized arguments
         ELSE LET e == RunEnd(av, i)
              IN  ParseFrom(av, e + 1, [ns EXCEPT !.h5file = SubSeq(av, i, e)], TRUE)

ParseArgs(av) == ParseFrom(av, 1, Defaults, FALSE)

\* A mutant of ClearForDblist: the mode is cleared, the positional files are kept.
ClearModeOnly(ns) ==
    IF ns.dblist # "" THEN [ns EXCEPT !.mode = ""] ELSE ns

\* if args.dblist: args.mode = ''; args.h5file = []
ClearForDblist(ns) ==
    IF ns.dblist # "" THEN [ns EXCEPT !.mode = "", !.h5file = <<>>] ELSE ns

ParseCommandLine(av) ==
    LET ns == ParseArgs(av)
    IN  IF ns.error THEN ns ELSE ClearForDblist(ns)

NotParsed == [Defaults EXCEPT !.mode = None]

\* Namespaces _parse_command_line can return for the bounded command lines.
Namespaces == {ns \in {ParseCommandLine(av) : av \in ArgvSet} : ~ns.error}

ParseIdle == argv = <<>> /\ args = NotParsed

ParseInit == argv \in ArgvSet /\ args = NotParsed

\* args = _parse_command_line() on the command line argv
DoParse ==
    /\ args = NotParsed
    /\ args' = ParseCommandLine(argv)
    /\ UNCHANGED <<argv, start_vars, logger_vars>>

-----------------------------------------------------------------------------
(* Strings compared by the launcher: sequences of code points              *)

\* str(n) for a natural number: '0' is code point 48
RECURSIVE Str(_)
Str(n) == IF n < 10 THEN <<48 + n>> ELSE Str(n \div 10) \o <<48 + (n % 10)>>

\* '.'.join(str(x) for x in v): '.' is code point 46
RECURSIVE VersionStr(_)
VersionStr(v) ==
    IF Len(v) = 1 THEN Str(v[1]) ELSE Str(v[1]) \o <<46>> \o VersionStr(Tail(v))

\* a < b on Python strings: code point by code point, a proper prefix is smaller
RECURSIVE StrLess(_, _)
StrLess(a, b) ==
    IF b = <<>> THEN FALSE
    ELSE IF a = <<>> THEN TRUE
    ELSE IF a[1] # b[1] THEN a[1] < b[1]
    ELSE StrLess(Tail(a), Tail(b))

\* the literal '3.0'
MinVersion == <<51, 46, 48>>

\* the literal "3.1.0"
HandlersVersion == <<51, 46, 49, 46, 48>>

\* Installed library versions tried: below, at and above the required one,
\* with one-digit and two-digit components.
Versions == {<<a, b, 0>> : a \in {2, 3, 10}, b \in {0, 1, 10}}

\* tables.__version__ < '3.0'
TooOld(v) == StrLess(VersionStr(v), MinVersion)

\* tables.__version__ >= "3.1.0"
HasHandlers(v) == ~StrLess(VersionStr(v), HandlersVersion)

-----------------------------------------------------------------------------
(* Logging                                                                 *)

ERROR == 40
WARNING == 30
INFO == 20
DEBUG == 10

FILE_LOG_FORMAT == "%(asctime)s - %(name)s - %(levelname)s - %(message)s"

\* A mutant of VERBOSITY_LOGLEVEL_DICT: the table is shifted by one count.
ShiftedVerbosityDict == (1 :> ERROR) @@ (2 :> WARNING) @@ (3 :> INFO) @@ (4 :> DEBUG)

\* _VERBOSITY_LOGLEVEL_DICT
VERBOSITY_LOGLEVEL_DICT == (0 :> ERROR) @@ (1 :> WARNING) @@ (2 :> INFO) @@ (3 :> DEBUG)

\* logger.<level>(text % arg) on a logger whose effective level is lvl: the
\* record is emitted when its level is at least lvl.
Emit(recs, lvl, name, level, text, arg) ==
    IF level >= lvl
    THEN Append(recs, [name |-> name, level |-> level, text |-> text, arg |-> arg])
    ELSE recs

\* logging.StreamHandler() with the file formatter
StderrHandler == [kind |-> "stream", fmt |-> FILE_LOG_FORMAT]

\* logging.FileHandler(log_filename) with the file formatter
FileHandler == [kind |-> "file", fmt |-> FILE_LOG_FORMAT]

\* Logger.addHandler: a handler already present is not added again
AddHandler(hs, h) ==
    IF \E i \in 1..Len(hs) : hs[i] = h THEN hs ELSE Append(hs, h)

\* Logger.removeHandler
RemoveHandlerFrom(hs, h) == SelectSeq(hs, LAMBDA x : x # h)

-----------------------------------------------------------------------------
(* The launcher process                                                    *)

\* File handles of the data-access library
Files == 1..MaxFiles

\* Uncaught exceptions: (type, value, traceback)
ExcSet == {[type |-> "OSError", value |-> "v1", tb |-> "tb1"],
           [type |-> "ValueError", value |-> "v2", tb |-> "tb2"]}

\* Tokens of a launcher run's command line
LaunchTokens == {"-v", "-l", "vt.log", "f.h5"}

LaunchArgvSet == SeqsUpTo(LaunchTokens, MaxLaunchArgs)

\* The orders in which a container of handles can be listed
Orders(S) == {s \in [1..Cardinality(S) -> S] : {s[i] : i \in 1..Cardinality(S)} = S}

\* The process state once the module is loaded: sys.excepthook is the hook,
\* the root logger is at its default level and has no handler.
StartLoaded ==
    /\ pc = "loaded"
    /\ steps = <<>>
    /\ gargs = NotParsed
    /\ exit_msg = None
    /\ root_level = WARNING
    /\ root_handlers = <<>>
    /\ console_handler = None
    /\ records = <<>>
    /\ raised = <<>>
    /\ exc = None
    /\ resume = None
    /\ default_handled = <<>>
    /\ atexit_hooks = <<>>
    /\ open_files = {}
    /\ at_exit_open = {}
    /\ log_open = None
    /\ hook_path = None
    /\ handlers = <<>>
    /\ close_calls = [f \in Files |-> 0]

StartIdle == launch = "script" /\ version = <<3, 0, 0>> /\ StartLoaded

StartInit == launch \in {"script", "entry"} /\ version \in Versions /\ StartLoaded

\* The process begins to exit: the registry at that moment is remembered.
BeginExit ==
    /\ pc' = "exiting"
    /\ at_exit_open' = open_files

\* if __name__ == '__main__': atexit.register(_close_open_files, False); gui()
\* A process that imports the module and calls gui() skips the registration.
MainGuard ==
    /\ pc = "loaded"
    /\ atexit_hooks' = IF launch = "script"
                       THEN Append(atexit_hooks, "_close_open_files")
                       ELSE atexit_hooks
    /\ pc' = "gui"
    /\ UNCHANGED <<launch, version, steps, gargs, exit_msg, root_level,
                   root_handlers, console_handler, records, raised, exc, resume,
                   default_handled, open_files, at_exit_open, log_open,
                   hook_path, handlers, close_calls>>
    /\ UNCHANGED <<parse_vars, logger_vars>>

\* _check_versions(): sys.exit with the FATAL message when the version string
\* compares below '3.0'
CheckVersions ==
    /\ pc = "gui"
    /\ steps' = Append(steps, "check_versions")
    /\ IF TooOld(version)
       THEN exit_msg' = "FATAL" /\ BeginExit
       ELSE pc' = "app" /\ UNCHANGED <<exit_msg, at_exit_open>>
    /\ UNCHANGED <<launch, version, gargs, root_level, root_handlers,
                   console_handler, records, raised, exc, resume,
                   default_handled, atexit_hooks, open_files, log_open,
                   hook_path, handlers, close_calls>>
    /\ UNCHANGED <<parse_vars, logger_vars>>

\* app = QApplication(sys.argv); _set_credentials(app); _set_locale(app)
StartApp ==
    /\ pc = "app"
    /\ steps' = steps \o <<"QApplication", "set_credentials", "set_locale">>
    /\ pc' = "parse"
    /\ UNCHANGED <<launch, version, gargs, exit_msg, root_level, root_handlers,
                   console_handler, records, raised, exc, resume,
                   default_handled, atexit_hooks, open_files, at_exit_open,
                   log_open, hook_path, handlers, close_calls>>
    /\ UNCHANGED <<parse_vars, logger_vars>>

\* args = _parse_command_line(): a parser error exits with status 2
ParseStep ==
    /\ pc = "parse"
    /\ steps' = Append(steps, "parse_command_line")
    /\ \E av \in LaunchArgvSet :
         LET ns == ParseCommandLine(av)
         IN  IF ns.error
             THEN exit_msg' = "2" /\ BeginExit /\ UNCHANGED gargs
             ELSE gargs' = ns /\ pc' = "setup_logger"
                  /\ UNCHANGED <<exit_msg, at_exit_open>>
    /\ UNCHANGED <<launch, version, root_level, root_handlers,
                   console_handler, records, raised, exc, resume,
                   default_handled, atexit_hooks, open_files, log_open,
                   hook_path, handlers, close_calls>>
    /\ UNCHANGED <<parse_vars, logger_vars>>

\* A mutant of HandlersAfterOpen: the file handler is added whether or not
\* the file could be opened.
HandlersAlwaysFile(hs, log_file, opened) ==
    IF log_file # None THEN AddHandler(hs, FileHandler) ELSE hs

\* The handlers after the try block of _setup_logger
HandlersAfterOpen(hs, log_file, opened) ==
    IF log_file # None /\ opened THEN AddHandler(hs, FileHandler) ELSE hs

\* The records after the except block of _setup_logger
RecordsAfterOpen(recs, lvl, log_file, opened) ==
    IF log_file # None /\ ~opened
    THEN Emit(Emit(recs, lvl, "root", ERROR, "Failed to open log file", <<>>),
              lvl, "root", ERROR, "exception", <<"OSError">>)
    ELSE recs

\* A mutant of LevelFor: the table is read one count off.
LevelForShifted(verbose) ==
    IF verbose \in DOMAIN ShiftedVerbosityDict
    THEN ShiftedVerbosityDict[verbose] ELSE ERROR

\* The level _setup_logger sets for a verbosity count
LevelFor(verbose) ==
    IF verbose \in DOMAIN VERBOSITY_LOGLEVEL_DICT
    THEN VERBOSITY_LOGLEVEL_DICT[verbose] ELSE ERROR

\* root_logger, console_log_handler = _setup_logger(args)
SetupLogger ==
    /\ pc = "setup_logger"
    /\ steps' = Append(steps, "setup_logger")
    /\ \E opened \in BOOLEAN :
         LET hs1  == AddHandler(root_handlers, StderrHandler)
             recs == RecordsAfterOpen(records, root_level, gargs.log_file, opened)
             lvl  == LevelFor(gargs.verbose)
         IN  /\ gargs.log_file = None => opened
             /\ log_open' = IF gargs.log_file = None THEN None
                            ELSE IF opened THEN "ok" ELSE "failed"
             /\ root_handlers' = HandlersAfterOpen(hs1, gargs.log_file, opened)
             /\ root_level' = lvl
             /\ records' = IF gargs.verbose \in DOMAIN VERBOSITY_LOGLEVEL_DICT
                           THEN recs
                           ELSE Emit(recs, lvl, "root", ERROR,
                                     "Invalid verbosity level", <<gargs.verbose>>)
    /\ console_handler' = StderrHandler
    /\ pc' = "vtapp"
    /\ UNCHANGED <<launch, version, gargs, exit_msg, raised, exc, resume,
                   default_handled, atexit_hooks, open_files, at_exit_open,
                   hook_path, handlers, close_calls>>
    /\ UNCHANGED <<parse_vars, logger_vars>>

\* An exception escapes to sys.excepthook; the main thread goes to `back`
\* once the hook returns.
Uncaught(e, back) ==
    /\ raised' = Append(raised, e)
    /\ exc' = e
    /\ resume' = back
    /\ pc' = "hook_log"

\* vtapp = VTApp(mode=args.mode, dblist=args.dblist, h5files=args.h5file):
\* the application opens some files
CreateVTApp ==
    /\ pc = "vtapp"
    /\ steps' = Append(steps, "VTApp")
    /\ \E S \in SUBSET Files : open_files' = S
    /\ pc' = "show"
    /\ UNCHANGED <<launch, version, gargs, exit_msg, root_level, root_handlers,
                   console_handler, records, raised, exc, resume,
                   default_handled, atexit_hooks, at_exit_open, log_open,
                   hook_path, handlers, close_calls>>
    /\ UNCHANGED <<parse_vars, logger_vars>>

\* The construction of VTApp raises: gui() is left by the exception
VTAppRaises ==
    /\ pc = "vtapp"
    /\ Len(raised) < MaxRaise
    /\ steps' = Append(steps, "VTApp")
    /\ \E S \in SUBSET Files : open_files' = S
    /\ \E e \in ExcSet : Uncaught(e, "exiting")
    /\ UNCHANGED <<launch, version, gargs, exit_msg, root_level, root_handlers,
                   console_handler, records, default_handled, atexit_hooks,
                   at_exit_open, log_open, hook_path, handlers, close_calls>>
    /\ UNCHANGED <<parse_vars, logger_vars>>

\* QApplication(sys.argv) or vtapp.gui.show() raises: gui() is left by the
\* exception
StepRaises ==
    /\ pc \in {"app", "show"}
    /\ Len(raised) < MaxRaise
    /\ steps' = Append(steps, IF pc = "app" THEN "QApplication" ELSE "show")
    /\ \E e \in ExcSet : Uncaught(e, "exiting")
    /\ UNCHANGED <<launch, version, gargs, exit_msg, root_level, root_handlers,
                   console_handler, records, default_handled, atexit_hooks,
                   open_files, at_exit_open, log_open, hook_path, handlers,
                   close_calls>>
    /\ UNCHANGED <<parse_vars, logger_vars>>

\* vtapp.gui.show()
ShowGui ==
    /\ pc = "show"
    /\ steps' = Append(steps, "show")
    /\ pc' = "remove_handler"
    /\ UNCHANGED <<launch, version, gargs, exit_msg, root_level, root_handlers,
                   console_handler, records, raised, exc, resume,
                   default_handled, atexit_hooks, open_files, at_exit_open,
                   log_open, hook_path, handlers, close_calls>>
    /\ UNCHANGED <<parse_vars, logger_vars>>

\* A mutant of RemoveConsoleHandler: every handler is removed.
RemoveAllHandlers(hs, h) == <<>>

\* root_logger.removeHandler(console_log_handler)
RemoveConsoleHandler(hs, h) == RemoveHandlerFrom(hs, h)

RemoveHandler ==
    /\ pc = "remove_handler"
    /\ steps' = Append(steps, "removeHandler")
    /\ root_handlers' = RemoveConsoleHandler(root_handlers, console_handler)
    /\ pc' = "exec"
    /\ UNCHANGED <<launch, version, gargs, exit_msg, root_level,
                   console_handler, records, raised, exc, resume,
                   default_handled, atexit_hooks, open_files, at_exit_open,
                   log_open, hook_path, handlers, close_calls>>
    /\ UNCHANGED <<parse_vars, logger_vars>>

\* app.exec_(): the event loop starts
Exec ==
    /\ pc = "exec"
    /\ steps' = Append(steps, "exec")
    /\ pc' = "loop"
    /\ UNCHANGED <<launch, version, gargs, exit_msg, root_level, root_handlers,
                   console_handler, records, raised, exc, resume,
                   default_handled, atexit_hooks, open_files, at_exit_open,
                   log_open, hook_path, handlers, close_calls>>
    /\ UNCHANGED <<parse_vars, logger_vars>>

\* In the event loop the user opens a file
OpenFile ==
    /\ pc = "loop"
    /\ \E f \in Files \ open_files : open_files' = open_files \cup {f}
    /\ UNCHANGED <<launch, version, pc, steps, gargs, exit_msg, root_level,
                   root_handlers, console_handler, records, raised, exc, resume,
                   default_handled, atexit_hooks, at_exit_open, log_open,
                   hook_path, handlers, close_calls>>
    /\ UNCHANGED <<parse_vars, logger_vars>>

\* In the event loop the user closes a file
CloseFile ==
    /\ pc = "loop"
    /\ \E f \in open_files : open_files' = open_files \ {f}
    /\ UNCHANGED <<launch, version, pc, steps, gargs, exit_msg, root_level,
                   root_handlers, console_handler, records, raised, exc, resume,
                   default_handled, atexit_hooks, at_exit_open, log_open,
                   hook_path, handlers, close_calls>>
    /\ UNCHANGED <<parse_vars, logger_vars>>

\* A slot run by the event loop raises; the loop goes on after the hook
SlotRaises ==
    /\ pc = "loop"
    /\ Len(raised) < MaxRaise
    /\ \E e \in ExcSet : Uncaught(e, "loop")
    /\ UNCHANGED <<launch, version, steps, gargs, exit_msg, root_level,
                   root_handlers, console_handler, records, default_handled,
                   atexit_hooks, open_files, at_exit_open, log_open, hook_path,
                   handlers, close_calls>>
    /\ UNCHANGED <<parse_vars, logger_vars>>

\* The application quits: app.exec_() and gui() return
Quit ==
    /\ pc = "loop"
    /\ BeginExit
    /\ UNCHANGED <<launch, version, steps, gargs, exit_msg, root_level,
                   root_handlers, console_handler, records, raised, exc, resume,
                   default_handled, atexit_hooks, open_files, log_open,
                   hook_path, handlers, close_calls>>
    /\ UNCHANGED <<parse_vars, logger_vars>>

\* A mutant of HookLog: the hook logs nothing.
HookLogsNothing ==
    /\ pc = "hook_log"
    /\ pc' = "hook_default"
    /\ UNCHANGED <<launch, version, steps, gargs, exit_msg, root_level,
                   root_handlers, console_handler, records, raised, exc, resume,
                   default_handled, atexit_hooks, open_files, at_exit_open,
                   log_open, hook_path, handlers, close_calls>>
    /\ UNCHANGED <<parse_vars, logger_vars>>

\* _uncaught_exception_hook, first statement:
\* _uncaught_exception_logger.error(''.join(traceback.format_tb(tb)) + str(value))
HookLog ==
    /\ pc = "hook_log"
    /\ records' = Emit(records, root_level, "uncaught_logger", ERROR,
                       "uncaught", <<exc.tb, exc.value>>)
    /\ pc' = "hook_default"
    /\ UNCHANGED <<launch, version, steps, gargs, exit_msg, root_level,
                   root_handlers, console_handler, raised, exc, resume,
                   default_handled, atexit_hooks, open_files, at_exit_open,
                   log_open, hook_path, handlers, close_calls>>
    /\ UNCHANGED <<parse_vars, logger_vars>>

\* _uncaught_exception_hook, second statement: sys.__excepthook__(type_, value, tb)
HookDefault ==
    /\ pc = "hook_default"
    /\ default_handled' = Append(default_handled, exc)
    /\ exc' = None
    /\ resume' = None
    /\ IF resume = "exiting"
       THEN BeginExit
       ELSE pc' = resume /\ UNCHANGED at_exit_open
    /\ UNCHANGED <<launch, version, steps, gargs, exit_msg, root_level,
                   root_handlers, console_handler, records, raised,
                   atexit_hooks, open_files, log_open, hook_path, handlers,
                   close_calls>>
    /\ UNCHANGED <<parse_vars, logger_vars>>

\* The interpreter exits with no callback registered
ExitNoHook ==
    /\ pc = "exiting"
    /\ atexit_hooks = <<>>
    /\ pc' = "terminated"
    /\ UNCHANGED <<launch, version, steps, gargs, exit_msg, root_level,
                   root_handlers, console_handler, records, raised, exc, resume,
                   default_handled, atexit_hooks, open_files, at_exit_open,
                   log_open, hook_path, handlers, close_calls>>
    /\ UNCHANGED <<parse_vars, logger_vars>>

\* _close_open_files up to its loop: the handlers list is a copy of the
\* registry's handles, built from .handlers or from the keys
CloseOpenFilesBegin ==
    /\ pc = "exiting"
    /\ atexit_hooks # <<>>
    /\ hook_path' = IF HasHandlers(version) THEN "handlers" ELSE "keys"
    /\ handlers' \in Orders(open_files)
    /\ pc' = "closing"
    /\ UNCHANGED <<launch, version, steps, gargs, exit_msg, root_level,
                   root_handlers, console_handler, records, raised, exc, resume,
                   default_handled, atexit_hooks, open_files, at_exit_open,
                   log_open, close_calls>>
    /\ UNCHANGED <<parse_vars, logger_vars>>

\* One turn of `for fileh in handlers: fileh.close()`: closing a handle
\* removes it from the registry
CloseNext ==
    /\ pc = "closing"
    /\ handlers # <<>>
    /\ open_files' = open_files \ {Head(handlers)}
    /\ close_calls' = [close_calls EXCEPT ![Head(handlers)] = @ + 1]
    /\ handlers' = Tail(handlers)
    /\ UNCHANGED <<launch, version, pc, steps, gargs, exit_msg, root_level,
                   root_handlers, console_handler, records, raised, exc, resume,
                   default_handled, atexit_hooks, at_exit_open, log_open,
                   hook_path>>
    /\ UNCHANGED <<parse_vars, logger_vars>>

\* The loop of _close_open_files is over and the process ends
CloseOpenFilesEnd ==
    /\ pc = "closing"
    /\ handlers = <<>>
    /\ pc' = "terminated"
    /\ UNCHANGED <<launch, version, steps, gargs, exit_msg, root_level,
                   root_handlers, console_handler, records, raised, exc, resume,
                   default_handled, atexit_hooks, open_files, at_exit_open,
                   log_open, hook_path, handlers, close_calls>>
    /\ UNCHANGED <<parse_vars, logger_vars>>

NextStart ==
    \/ MainGuard
    \/ CheckVersions
    \/ StartApp
    \/ ParseStep
    \/ SetupLogger
    \/ CreateVTApp
    \/ VTAppRaises
    \/ StepRaises
    \/ ShowGui
    \/ RemoveHandler
    \/ Exec
    \/ OpenFile
    \/ CloseFile
    \/ SlotRaises
    \/ Quit
    \/ HookLog
    \/ HookDefault
    \/ ExitNoHook
    \/ CloseOpenFilesBegin
    \/ CloseNext
    \/ CloseOpenFilesEnd

-----------------------------------------------------------------------------
(* The Logger widget                                                       *)

\* QColor('red'), QColor(243, 137, 8) and the default text colour, as RGB
Red == <<255, 0, 0>>
Orange == <<243, 137, 8>>
Black == <<0, 0, 0>>

\* Console texts are sequences of characters.
NL == <<"\n">>
CRNL == <<"\r", "\n">>
ErrorPrefix == <<"\n", "E", "r", "r", "o", "r", ":", " ">>
WarningPrefix == <<"\n", "W", "a", "r", "n", "i", "n", "g", ":", " ">>

\* The texts printed: a plain line, an error, a warning, and an error
\* message that does not begin with a line break.
Hola == <<"H", "o", "l", "a">>
ErrorLine == ErrorPrefix \o <<"v">>
WarningLine == WarningPrefix \o <<"A">>
BareError == <<"E", "r", "r", "o", "r", ":", " ", "v">>

Lines == {Hola, ErrorLine, WarningLine, BareError}
Texts == Lines \cup {NL, CRNL}

\* text.startswith(prefix)
StartsWith(text, prefix) ==
    Len(text) >= Len(prefix) /\ SubSeq(text, 1, Len(prefix)) = prefix

LoggerInit ==
    /\ document = <<>>
    /\ text_color = Black
    /\ has_selection = FALSE
    /\ menu = [made |-> FALSE, copy |-> FALSE, clear |-> FALSE, select |-> FALSE]
    /\ menu_shown = FALSE
    /\ has_focus = FALSE
    /\ emitted = <<>>
    /\ pending = <<>>

\* The colour write() appends a text in
ColorFor(text, current_color) ==
    IF StartsWith(text, ErrorPrefix) THEN Red
    ELSE IF StartsWith(text, WarningPrefix) THEN Orange
    ELSE current_color

\* A mutant of ColorAfterWrite: the colour of the appended text is kept.
ColorKept(text, current_color) == ColorFor(text, current_color)

\* self.setTextColor(current_color), the last statement of write()
ColorAfterWrite(text, current_color) == current_color

\* text in ['\n', '\r\n']
Dropped(text) == text \in {NL, CRNL}

\* Logger.write(text).  append() adds a paragraph in the current colour;
\* moveCursor(EndOfLine) moves the anchor too, which leaves no selection.
Write(text) ==
    IF Dropped(text)
    THEN UNCHANGED <<document, text_color, has_selection>>
    ELSE /\ Len(document) < MaxDoc
         /\ document' = Append(document,
                               [text |-> text, color |-> ColorFor(text, text_color)])
         /\ has_selection' = FALSE
         /\ text_color' = ColorAfterWrite(text, text_color)

\* print text: the interpreter writes the text and then the line end to
\* sys.stdout, which is the Logger; other writers pass a single text
PrintLine ==
    /\ pending = <<>>
    /\ \/ \E t \in Lines, end \in {NL, CRNL} : pending' = <<t, end>>
       \/ \E t \in Texts : pending' = <<t>>
    /\ UNCHANGED <<document, text_color, has_selection, menu, menu_shown,
                   has_focus, emitted>>
    /\ UNCHANGED <<parse_vars, start_vars>>

\* The next printed text reaches Logger.write
WriteHead ==
    /\ pending # <<>>
    /\ Write(Head(pending))
    /\ pending' = Tail(pending)
    /\ UNCHANGED <<menu, menu_shown, has_focus, emitted>>
    /\ UNCHANGED <<parse_vars, start_vars>>

\* Logger.write called with any text
WriteAny ==
    /\ \E t \in Texts : Write(t)
    /\ UNCHANGED <<menu, menu_shown, has_focus, emitted, pending>>
    /\ UNCHANGED <<parse_vars, start_vars>>

\* The user clicks in paragraph i: the cursor moves there, the selection is
\* dropped and the current colour becomes that of the paragraph
ClickAt ==
    /\ ~menu_shown
    /\ \E i \in 1..Len(document) : text_color' = document[i].color
    /\ has_selection' = FALSE
    /\ UNCHANGED <<document, menu, menu_shown, has_focus, emitted, pending>>
    /\ UNCHANGED <<parse_vars, start_vars>>

\* The user selects text ending in paragraph i
SelectText ==
    /\ ~menu_shown
    /\ \E i \in 1..Len(document) : text_color' = document[i].color
    /\ has_selection' = TRUE
    /\ UNCHANGED <<document, menu, menu_shown, has_focus, emitted, pending>>
    /\ UNCHANGED <<parse_vars, start_vars>>

\* Logger.disableCopyNodeAction
DisableCopyNodeAction(sigs) == Append(sigs, "disableCopyNodeAction")

\* A mutant of UpdateCopyNodeAction: nothing is emitted.
EmitNothing(sigs) == sigs

\* Logger.updateCopyNodeAction
UpdateCopyNodeAction(sigs) == Append(sigs, "updateCopyNodeAction")

\* A mutant of UpdateEditMenu: Copy follows the document, not the selection.
UpdateEditMenuCopyByText(sel, doc) ==
    [made |-> TRUE, copy |-> doc # <<>>, clear |-> doc # <<>>, select |-> doc # <<>>]

\* Logger.updateEditMenu: the enabled state of Copy, Clear All and Select All
UpdateEditMenu(sel, doc) ==
    [made   |-> TRUE,
     copy   |-> sel,
     clear  |-> ~(doc = <<>>),
     select |-> ~(doc = <<>>)]

\* Logger.createCustomContextMenu: the menu is made and popped up; its
\* aboutToShow runs updateEditMenu and then disableCopyNodeAction
CreateCustomContextMenu ==
    /\ ~menu_shown
    /\ Len(emitted) < MaxSignals
    /\ menu' = UpdateEditMenu(has_selection, document)
    /\ emitted' = DisableCopyNodeAction(emitted)
    /\ menu_shown' = TRUE
    /\ UNCHANGED <<document, text_color, has_selection, has_focus, pending>>
    /\ UNCHANGED <<parse_vars, start_vars>>

\* The menu goes away: aboutToHide runs updateCopyNodeAction
HideMenu ==
    /\ menu_shown
    /\ Len(emitted) < MaxSignals
    /\ menu_shown' = FALSE
    /\ emitted' = UpdateCopyNodeAction(emitted)

\* The user dismisses the menu
MenuDismiss ==
    /\ HideMenu
    /\ UNCHANGED <<document, text_color, has_selection, menu, has_focus, pending>>
    /\ UNCHANGED <<parse_vars, start_vars>>

\* The user picks Copy: copy() leaves the console as it is
MenuCopy ==
    /\ HideMenu
    /\ menu.copy
    /\ UNCHANGED <<document, text_color, has_selection, menu, has_focus, pending>>
    /\ UNCHANGED <<parse_vars, start_vars>>

\* The user picks Clear All: clear() empties the document; the current
\* colour stays or falls back to the default
MenuClear ==
    /\ HideMenu
    /\ menu.clear
    /\ document' = <<>>
    /\ has_selection' = FALSE
    /\ text_color' \in {text_color, Black}
    /\ UNCHANGED <<menu, has_focus, pending>>
    /\ UNCHANGED <<parse_vars, start_vars>>

\* The user picks Select All: selectAll() selects the whole document
MenuSelectAll ==
    /\ HideMenu
    /\ menu.select
    /\ has_selection' = (document # <<>>)
    /\ UNCHANGED <<document, text_color, menu, has_focus, pending>>
    /\ UNCHANGED <<parse_vars, start_vars>>

\* Logger.focusInEvent
FocusInEvent ==
    /\ ~has_focus
    /\ Len(emitted) < MaxSignals
    /\ emitted' = DisableCopyNodeAction(emitted)
    /\ has_focus' = TRUE
    /\ UNCHANGED <<document, text_color, has_selection, menu, menu_shown, pending>>
    /\ UNCHANGED <<parse_vars, start_vars>>

\* Logger.focusOutEvent
FocusOutEvent ==
    /\ has_focus
    /\ Len(emitted) < MaxSignals
    /\ emitted' = UpdateCopyNodeAction(emitted)
    /\ has_focus' = FALSE
    /\ UNCHANGED <<document, text_color, has_selection, menu, menu_shown, pending>>
    /\ UNCHANGED <<parse_vars, start_vars>>

NextWrite ==
    \/ PrintLine
    \/ WriteHead
    \/ ClickAt
    \/ SelectText

NextLogger ==
    \/ WriteAny
    \/ ClickAt
    \/ SelectText
    \/ CreateCustomContextMenu
    \/ MenuDismiss
    \/ MenuCopy
    \/ MenuClear
    \/ MenuSelectAll
    \/ FocusInEvent
    \/ FocusOutEvent

-----------------------------------------------------------------------------
(* Specifications                                                          *)

\* _parse_command_line on every bounded command line
InitParse == ParseInit /\ StartIdle /\ LoggerInit

SpecParse == InitParse /\ [][DoParse]_vars

\* _setup_logger on every namespace the parser returns, at its call in gui()
SetupLoggerInit ==
    /\ launch \in {"script", "entry"}
    /\ version \in {v \in Versions : ~TooOld(v)}
    /\ gargs \in Namespaces
    /\ pc = "setup_logger"
    /\ steps = <<"check_versions", "QApplication", "set_credentials",
                 "set_locale", "parse_command_line">>
    /\ atexit_hooks = IF launch = "script" THEN <<"_close_open_files">> ELSE <<>>
    /\ exit_msg = None
    /\ root_level = WARNING
    /\ root_handlers = <<>>
    /\ console_handler = None
    /\ records = <<>>
    /\ raised = <<>>
    /\ exc = None
    /\ resume = None
    /\ default_handled = <<>>
    /\ open_files = {}
    /\ at_exit_open = {}
    /\ log_open = None
    /\ hook_path = None
    /\ handlers = <<>>
    /\ close_calls = [f \in Files |-> 0]

InitSetupLogger == ParseIdle /\ SetupLoggerInit /\ LoggerInit

SpecSetupLogger == InitSetupLogger /\ [][SetupLogger]_vars

\* The launcher process
Init == ParseIdle /\ StartInit /\ LoggerInit

Next == NextStart

Spec == Init /\ [][Next]_vars

\* The console fed by the redirected standard output
InitLogger == ParseIdle /\ StartIdle /\ LoggerInit

SpecWrite == InitLogger /\ [][NextWrite]_vars

\* The console with its context menu and focus events
SpecLogger == InitLogger /\ [][NextLogger]_vars

-----------------------------------------------------------------------------
(* Properties                                                              *)

Range(s) == {s[i] : i \in 1..Len(s)}

Last(s) == s[Len(s)]

\* The value that follows the last occurrence of a storing option
ValueOf(av, opt, default) ==
    LET at == {i \in 1..(Len(av) - 1) : av[i] = opt}
    IN  IF at = {} THEN default
        ELSE av[(CHOOSE i \in at : \A j \in at : j <= i) + 1]

\* The tokens that are neither options nor the value of a storing option
RECURSIVE PositionalTokens(_)
PositionalTokens(av) ==
    IF av = <<>> THEN <<>>
    ELSE LET n    == Len(av)
             rest == PositionalTokens(SubSeq(av, 1, n - 1))
         IN  IF av[n] \in OptionStrings THEN rest
             ELSE IF n > 1 /\ av[n - 1] \in StoreOptions THEN rest
             ELSE Append(rest, av[n])

\* C1: for every command line the parser accepts, a non-empty --dblist value
\* gives mode '' and h5file [] whatever -m and positional files were given;
\* with dblist '' the mode is the one given (default 'a') and h5file is the
\* list of positional arguments in order.
C1_DblistClearsModeAndFiles ==
    (args # NotParsed /\ ~args.error) =>
        LET dblist == ValueOf(argv, "-d", "")
        IN  /\ args.dblist = dblist
            /\ dblist # "" => args.mode = "" /\ args.h5file = <<>>
            /\ dblist = "" => /\ args.mode = ValueOf(argv, "-m", "a")
                              /\ args.h5file = PositionalTokens(argv)

\* C1 witness: an accepted command line with a list file and a positional
\* file, which the returned namespace no longer holds
C1_Witness ==
    /\ args # NotParsed
    /\ ~args.error
    /\ args.dblist # ""
    /\ PositionalTokens(argv) # <<>>
    /\ args.h5file = <<>>

\* The installed version is below major.minor, compared as numbers
VersionBelow(v, major, minor) ==
    v[1] < major \/ (v[1] = major /\ v[2] < minor)

\* C2: _check_versions is the first step of gui(); it ends the process with
\* the FATAL message when the installed version is below 3.0 and lets
\* startup go on for every version that is 3.0 or above, 10.0 included.
C2_VersionGate ==
    /\ steps # <<>> => steps[1] = "check_versions"
    /\ steps = <<"check_versions">> =>
          IF VersionBelow(version, 3, 0)
          THEN exit_msg = "FATAL" /\ pc \in {"exiting", "closing", "terminated"}
          ELSE exit_msg = None /\ pc = "app"

\* C3: after _setup_logger the root level is ERROR, WARNING, INFO, DEBUG for
\* 0, 1, 2, 3 -v's; for any other count it is ERROR and one 'Invalid
\* verbosity level' error record is emitted; the function returns.
C3_VerbosityTable ==
    LET invalid == SelectSeq(records, LAMBDA r : r.text = "Invalid verbosity level")
    IN  /\ pc \in {"setup_logger", "vtapp"}
        /\ exit_msg = None
        /\ pc = "vtapp" =>
             /\ gargs.verbose = 0 => root_level = 40
             /\ gargs.verbose = 1 => root_level = 30
             /\ gargs.verbose = 2 => root_level = 20
             /\ gargs.verbose = 3 => root_level = 10
             /\ gargs.verbose \in 0..3 => invalid = <<>>
             /\ gargs.verbose \notin 0..3 =>
                  /\ root_level = 40
                  /\ invalid = <<[name |-> "root", level |-> 40,
                                  text |-> "Invalid verbosity level",
                                  arg |-> <<gargs.verbose>>]>>

\* C3 witness: _setup_logger has returned for a count outside the table
C3_Witness == pc = "vtapp" /\ gargs.verbose = 4

\* C4: at process exit the hook closes every handle that is in the registry
\* at that moment, each exactly once, and none stays open, however the
\* launcher was started.
C4_ExitHookClosesAll ==
    pc = "terminated" =>
        \A f \in Files :
            IF f \in at_exit_open
            THEN close_calls[f] = 1 /\ f \notin open_files
            ELSE close_calls[f] = 0

\* C5: a written text is appended red when it starts with '\nError: ',
\* orange when it starts with '\nWarning: ', else in the colour current
\* before the call; the current colour after the call is the one before it;
\* '\n' and '\r\n' append nothing and change no colour.
C5_WriteColors ==
    [][(pending # <<>> /\ pending' = Tail(pending)) =>
          LET text == Head(pending)
              shown == IF StartsWith(text, ErrorPrefix) THEN <<255, 0, 0>>
                       ELSE IF StartsWith(text, WarningPrefix) THEN <<243, 137, 8>>
                       ELSE text_color
          IN  /\ text_color' = text_color
              /\ IF text = <<"\n">> \/ text = <<"\r", "\n">>
                 THEN document' = document
                 ELSE document' = Append(document, [text |-> text, color |-> shown])
       ]_vars

\* C5 witness: a plain line written after an error line is black, and so is
\* the current colour
C5_Witness ==
    /\ Len(document) = 2
    /\ document[1] = [text |-> ErrorLine, color |-> Red]
    /\ document[2] = [text |-> Hola, color |-> Black]
    /\ text_color = Black
    /\ pending = <<>>

\* The level the verbosity table gives, ERROR outside it
TableLevel(verbose) ==
    CASE verbose = 0 -> 40
      [] verbose = 1 -> 30
      [] verbose = 2 -> 20
      [] verbose = 3 -> 10
      [] OTHER -> 40

\* C6: when the log file cannot be opened, _setup_logger logs the failure
\* as two error records, adds no file handler, keeps the temporary stderr
\* handler, sets the level from the verbosity count and returns; when it can
\* be opened exactly one file handler with the file format is added.
C6_LogFileFailure ==
    pc = "vtapp" =>
        /\ root_level = TableLevel(gargs.verbose)
        /\ (log_open = None) <=> (gargs.log_file = None)
        /\ log_open = "failed" =>
             /\ root_handlers = <<[kind |-> "stream", fmt |-> FILE_LOG_FORMAT]>>
             /\ Len(records) >= 2
             /\ records[1] = [name |-> "root", level |-> 40,
                              text |-> "Failed to open log file", arg |-> <<>>]
             /\ records[2] = [name |-> "root", level |-> 40,
                              text |-> "exception", arg |-> <<"OSError">>]
        /\ log_open = "ok" =>
             /\ root_handlers = <<[kind |-> "stream", fmt |-> FILE_LOG_FORMAT],
                                  [kind |-> "file", fmt |-> FILE_LOG_FORMAT]>>
             /\ \A i \in 1..Len(records) : records[i].text # "Failed to open log file"
        /\ log_open = None =>
             root_handlers = <<[kind |-> "stream", fmt |-> FILE_LOG_FORMAT]>>

\* C6 witness: the log file could not be opened and startup goes on
C6_Witness ==
    /\ pc = "vtapp"
    /\ log_open = "failed"
    /\ gargs.verbose = 1
    /\ root_level = 30
    /\ Len(root_handlers) = 1

\* C7: for each uncaught exception the hook emits one error record on
\* 'uncaught_logger' built from its traceback and value, and only then
\* passes that exception to the default handler, once.
C7_HookLogsThenDefault ==
    LET logged  == SelectSeq(records, LAMBDA r : r.name = "uncaught_logger")
        in_hook == IF pc = "hook_log" THEN 2 ELSE IF pc = "hook_default" THEN 1 ELSE 0
    IN  /\ Len(logged) = Len(raised) - (IF in_hook = 2 THEN 1 ELSE 0)
        /\ Len(default_handled) = Len(raised) - (IF in_hook > 0 THEN 1 ELSE 0)
        /\ \A i \in 1..Len(logged) :
              logged[i] = [name |-> "uncaught_logger", level |-> 40,
                           text |-> "uncaught",
                           arg |-> <<raised[i].tb, raised[i].value>>]
        /\ \A i \in 1..Len(default_handled) : default_handled[i] = raised[i]

\* C7 witness: two different exceptions have gone through the hook
C7_Witness ==
    /\ pc = "loop"
    /\ Len(default_handled) = 2
    /\ default_handled[1] # default_handled[2]

\* C8: the temporary stderr handler is on the root logger while the main
\* window is built and shown, and is gone once gui() reaches app.exec_();
\* a file handler that was added stays.
C8_TemporaryHandler ==
    LET streams == SelectSeq(root_handlers, LAMBDA h : h.kind = "stream")
        files   == SelectSeq(root_handlers, LAMBDA h : h.kind = "file")
    IN  /\ pc \in {"vtapp", "show", "remove_handler"} => Len(streams) = 1
        /\ "removeHandler" \in Range(steps) =>
              /\ streams = <<>>
              /\ Len(files) = (IF log_open = "ok" THEN 1 ELSE 0)

\* C8 witness: the event loop runs with the file handler alone
C8_Witness ==
    /\ pc = "loop"
    /\ log_open = "ok"
    /\ root_handlers = <<FileHandler>>

\* C9: whenever the context menu is about to be shown, Copy is enabled iff
\* there is a selection, and Clear All and Select All are enabled iff the
\* document is not empty.
C9_EditMenu ==
    [][(~menu_shown /\ menu_shown') =>
          /\ menu'.copy = has_selection'
          /\ menu'.clear = (Len(document') > 0)
          /\ menu'.select = (Len(document') > 0)
       ]_vars

\* C9 witness: a menu shown over a console with text and a selection
C9_Witness ==
    /\ menu_shown
    /\ has_selection
    /\ document # <<>>
    /\ menu.copy /\ menu.clear /\ menu.select

\* C10 as stated: while the logger has focus or its menu is shown, the last
\* signal emitted is disableCopyNodeAction.
C10_DisabledWhileFocusedOrShown ==
    (has_focus \/ menu_shown) =>
        emitted # <<>> /\ Last(emitted) = "disableCopyNodeAction"

\* C10 amended: each focus-in and each menu show emits
\* disableCopyNodeAction, each focus-out and each menu hide emits
\* updateCopyNodeAction, and nothing else emits; so the last signal is the
\* one of the most recent of these four events.
C10_SignalsFollowEvents ==
    [][LET gained == ~has_focus /\ has_focus'
           lost   == has_focus /\ ~has_focus'
           popped == ~menu_shown /\ menu_shown'
           hidden == menu_shown /\ ~menu_shown'
       IN  /\ (gained \/ popped) => emitted' = Append(emitted, "disableCopyNodeAction")
           /\ (lost \/ hidden) => emitted' = Append(emitted, "updateCopyNodeAction")
           /\ emitted' # emitted => (gained \/ popped \/ lost \/ hidden)
      ]_vars

\* C10 witness: the menu was shown and hidden while the logger kept focus,
\* and the last signal is updateCopyNodeAction
C10_Witness ==
    /\ has_focus
    /\ ~menu_shown
    /\ emitted = <<"disableCopyNodeAction", "disableCopyNodeAction",
                   "updateCopyNodeAction">>

=============================================================================
